---------------------------- MODULE Spec2Model ----------------------------
(***************************************************************************)
(* A model of PDFFormBuilder (src/main.py): the field collection and the   *)
(* handlers that change it, the widget classifier, the canvas/PDF          *)
(* coordinate mapping and the export of the fields as widgets.             *)
(*                                                                         *)
(* Python floats are IEEE-754 binary64 values.  They are modelled bit for  *)
(* bit: a float is a sign, a 53-bit mantissa and an exponent, and every    *)
(* arithmetic operation rounds to nearest, ties to even.  Mantissas do not *)
(* fit the integers of the model checker, so they are kept as sequences   *)
(* of 14-bit limbs, least significant first.                               *)
(***************************************************************************)
EXTENDS Integers, Sequences, FiniteSets, TLC

(***************************************************************************)
(* Natural numbers of any size: little-endian limb sequences, no leading   *)
(* zero limb, zero is <<>>.                                                *)
(***************************************************************************)
LimbBits == 14
Base == 2^LimbBits

RECURSIVE BNorm(_)
BNorm(a) ==
    IF a = <<>> THEN a
    ELSE IF a[Len(a)] = 0 THEN BNorm(SubSeq(a, 1, Len(a) - 1)) ELSE a

RECURSIVE BFromNat(_)
BFromNat(n) == IF n = 0 THEN <<>> ELSE <<n % Base>> \o BFromNat(n \div Base)

BLimb(a, i) == IF i <= Len(a) THEN a[i] ELSE 0

RECURSIVE BAddFrom(_, _, _, _)
BAddFrom(a, b, i, c) ==
    IF i > Len(a) /\ i > Len(b)
    THEN (IF c = 0 THEN <<>> ELSE <<c>>)
    ELSE LET t == BLimb(a, i) + BLimb(b, i) + c
         IN  <<t % Base>> \o BAddFrom(a, b, i + 1, t \div Base)

BAdd(a, b) == BAddFrom(a, b, 1, 0)

\* a - b for a >= b
RECURSIVE BSubFrom(_, _, _, _)
BSubFrom(a, b, i, c) ==
    IF i > Len(a) THEN <<>>
    ELSE LET t == a[i] - BLimb(b, i) - c
         IN  IF t < 0 THEN <<t + Base>> \o BSubFrom(a, b, i + 1, 1)
                      ELSE <<t>> \o BSubFrom(a, b, i + 1, 0)

BSub(a, b) == BNorm(BSubFrom(a, b, 1, 0))

\* -1, 0 or 1 as a < b, a = b, a > b
RECURSIVE BCmpFrom(_, _, _)
BCmpFrom(a, b, i) ==
    IF i = 0 THEN 0
    ELSE IF a[i] < b[i] THEN -1
    ELSE IF a[i] > b[i] THEN 1
    ELSE BCmpFrom(a, b, i - 1)

BCmp(a, b) ==
    IF Len(a) < Len(b) THEN -1
    ELSE IF Len(a) > Len(b) THEN 1
    ELSE BCmpFrom(a, b, Len(a))

\* a * k for 0 <= k <= Base
RECURSIVE BMulSmallFrom(_, _, _, _)
BMulSmallFrom(a, k, i, c) ==
    IF i > Len(a) THEN BFromNat(c)
    ELSE LET t == a[i] * k + c
         IN  <<t % Base>> \o BMulSmallFrom(a, k, i + 1, t \div Base)

BMulSmall(a, k) == BNorm(BMulSmallFrom(a, k, 1, 0))

RECURSIVE BZeros(_)
BZeros(n) == IF n = 0 THEN <<>> ELSE <<0>> \o BZeros(n - 1)

RECURSIVE BMulFrom(_, _, _)
BMulFrom(a, b, i) ==
    IF i > Len(b) THEN <<>>
    ELSE BAdd(BZeros(i - 1) \o BMulSmall(a, b[i]), BMulFrom(a, b, i + 1))

BMul(a, b) == IF a = <<>> \/ b = <<>> THEN <<>> ELSE BNorm(BMulFrom(a, b, 1))

\* a * 2^k
BShl(a, k) ==
    IF a = <<>> THEN <<>>
    ELSE BZeros(k \div LimbBits) \o BMulSmall(a, 2^(k % LimbBits))

\* floor(a / d) for 1 <= d <= Base
RECURSIVE BDivSmallFrom(_, _, _, _)
BDivSmallFrom(a, d, i, r) ==
    IF i = 0 THEN <<>>
    ELSE LET t == r * Base + a[i]
         IN  BDivSmallFrom(a, d, i - 1, t % d) \o <<t \div d>>

BDivSmall(a, d) == BNorm(BDivSmallFrom(a, d, Len(a), 0))

\* floor(a / 2^k)
BShr(a, k) ==
    IF k \div LimbBits >= Len(a) THEN <<>>
    ELSE BDivSmall(SubSeq(a, k \div LimbBits + 1, Len(a)), 2^(k % LimbBits))

RECURSIVE NatBitLen(_)
NatBitLen(n) == IF n = 0 THEN 0 ELSE 1 + NatBitLen(n \div 2)

BBitLen(a) == IF a = <<>> THEN 0 ELSE LimbBits * (Len(a) - 1) + NatBitLen(a[Len(a)])

BOdd(a) == a # <<>> /\ a[1] % 2 = 1

\* The largest q in lo..hi with d * q <= r, by bisection
RECURSIVE BDigit(_, _, _, _)
BDigit(r, d, lo, hi) ==
    IF lo = hi THEN lo
    ELSE LET mid == (lo + hi + 1) \div 2
         IN  IF BCmp(BMulSmall(d, mid), r) <= 0
             THEN BDigit(r, d, mid, hi)
             ELSE BDigit(r, d, lo, mid - 1)

\* <<floor(b / d), b mod d>> for d > 0 and b the limbs of a from limb i up, by
\* long division, one limb of the quotient at a time
RECURSIVE BDivModFrom(_, _, _)
BDivModFrom(a, d, i) ==
    IF i > Len(a) THEN <<<<>>, <<>>>>
    ELSE LET p == BDivModFrom(a, d, i + 1)
             r == BNorm(<<a[i]>> \o p[2])
             q == BDigit(r, d, 0, Base - 1)
         IN  IF r = <<>>
             THEN <<BNorm(<<0>> \o p[1]), r>>
             ELSE <<BNorm(<<q>> \o p[1]), BSub(r, BMulSmall(d, q))>>

BDivMod(a, d) == BDivModFrom(a, d, 1)

(***************************************************************************)
(* Python float: [s |-> sign (1 is negative), m |-> mantissa, e |->        *)
(* exponent], of value (-1)^s * m * 2^e with 2^52 <= m < 2^53, or zero     *)
(* (m = <<>>, e = 0, s = 0).  The model's values stay far from the         *)
(* overflow and underflow thresholds, so infinities, NaN and subnormal     *)
(* numbers do not occur; the sign of a zero is not kept.                   *)
(***************************************************************************)
MantBits == 53

FZero == [s |-> 0, m |-> <<>>, e |-> 0]

\* The float nearest to (-1)^s * (n + f) * 2^e, ties to even, where 0 <= f < 1
\* and f > 0 exactly if sticky; an inexact n must have more than MantBits + 1 bits.
FRound(s, n, e, sticky) ==
    LET len == BBitLen(n) IN
    IF n = <<>> THEN FZero
    ELSE IF len <= MantBits
    THEN [s |-> s, m |-> BShl(n, MantBits - len), e |-> e - (MantBits - len)]
    ELSE LET k     == len - MantBits
             q     == BShr(n, k - 1)
             m0    == BShr(q, 1)
             guard == BOdd(q)
             rest  == sticky \/ BShl(q, k - 1) # n
             up    == guard /\ (rest \/ BOdd(m0))
             m1    == IF up THEN BAdd(m0, <<1>>) ELSE m0
         IN  IF BBitLen(m1) > MantBits
             THEN [s |-> s, m |-> BShr(m1, 1), e |-> e + k + 1]
             ELSE [s |-> s, m |-> m1, e |-> e + k]

\* float(n) for a Python int n
FromInt(n) == FRound(IF n < 0 THEN 1 ELSE 0, BFromNat(IF n < 0 THEN -n ELSE n), 0, FALSE)

\* x * y
FMul(x, y) == FRound((x.s + y.s) % 2, BMul(x.m, y.m), x.e + y.e, FALSE)

\* x / y for y # 0
FDiv(x, y) ==
    LET qr == BDivMod(BShl(x.m, MantBits + 3), y.m)
    IN  FRound((x.s + y.s) % 2, qr[1], x.e - y.e - (MantBits + 3), qr[2] # <<>>)

\* The exact value of x as an integer multiple of 2^e, for e <= x.e
FAlign(x, e) == BShl(x.m, x.e - e)

FMinExp(x, y) ==
    IF x.m = <<>> THEN y.e ELSE IF y.m = <<>> THEN x.e
    ELSE IF x.e < y.e THEN x.e ELSE y.e

\* x - y
FSub(x, y) ==
    LET e  == FMinExp(x, y)
        a  == FAlign(x, e)
        b  == FAlign(y, e)
    IN  IF x.s # y.s
        THEN FRound(x.s, BAdd(a, b), e, FALSE)
        ELSE IF BCmp(a, b) >= 0
        THEN FRound(x.s, BSub(a, b), e, FALSE)
        ELSE FRound(1 - x.s, BSub(b, a), e, FALSE)

\* -1, 0, 1 as x < y, x = y, x > y; the mantissa of a float other than 0 has
\* MantBits bits, so the exponents decide unless they are equal
FCmp(x, y) ==
    LET c == IF x.e # y.e THEN (IF x.e > y.e THEN 1 ELSE -1) ELSE BCmp(x.m, y.m)
    IN  IF x.m = <<>> /\ y.m = <<>> THEN 0
        ELSE IF x.m = <<>> THEN (IF y.s = 1 THEN 1 ELSE -1)
        ELSE IF y.m = <<>> THEN (IF x.s = 1 THEN -1 ELSE 1)
        ELSE IF x.s # y.s THEN (IF x.s = 1 THEN -1 ELSE 1)
        ELSE IF x.s = 0 THEN c ELSE -c

FGt(x, y) == FCmp(x, y) = 1

(***************************************************************************)
(* Text typed into an entry widget: a sequence of one-character strings.   *)
(* int() and float() are modelled for plain decimal numerals, with an      *)
(* optional sign and surrounding spaces; the inputs of the model hold no   *)
(* exponent, underscore, "inf" or "nan" form.                              *)
(***************************************************************************)
DigitVal ==
    "0" :> 0 @@ "1" :> 1 @@ "2" :> 2 @@ "3" :> 3 @@ "4" :> 4 @@
    "5" :> 5 @@ "6" :> 6 @@ "7" :> 7 @@ "8" :> 8 @@ "9" :> 9

IsDigits(t) == t # <<>> /\ \A i \in 1..Len(t) : t[i] \in DOMAIN DigitVal

Whitespace == {" ", "\t", "\n"}

RECURSIVE LStrip(_)
LStrip(t) == IF t # <<>> /\ t[1] \in Whitespace THEN LStrip(Tail(t)) ELSE t

RECURSIVE RStrip(_)
RStrip(t) ==
    IF t # <<>> /\ t[Len(t)] \in Whitespace
        THEN RStrip(SubSeq(t, 1, Len(t) - 1))
        ELSE t

\* str.strip()
Strip(t) == RStrip(LStrip(t))

\* the characters of a text joined into one string
RECURSIVE Join(_)
Join(t) == IF t = <<>> THEN "" ELSE t[1] \o Join(Tail(t))

\* the value of a digit string
RECURSIVE DigitsValue(_)
DigitsValue(t) ==
    IF t = <<>> THEN 0
    ELSE 10 * DigitsValue(SubSeq(t, 1, Len(t) - 1)) + DigitVal[t[Len(t)]]

Signed(t) == t # <<>> /\ t[1] \in {"+", "-"}
Unsigned(t) == IF Signed(t) THEN Tail(t) ELSE t

\* int(text): [ok |-> FALSE] stands for ValueError
ParseInt(text) ==
    LET t == Strip(text)
        d == Unsigned(t)
    IN  IF IsDigits(d)
        THEN [ok |-> TRUE,
              val |-> IF Signed(t) /\ t[1] = "-" THEN 0 - DigitsValue(d) ELSE DigitsValue(d)]
        ELSE [ok |-> FALSE]

PointAt(t) == {i \in 1..Len(t) : t[i] = "."}

\* float(text): the float nearest to the decimal numeral; [ok |-> FALSE] stands
\* for ValueError
ParseFloat(text) ==
    LET t    == Strip(text)
        d    == Unsigned(t)
        dot  == PointAt(d)
        k    == IF dot = {} THEN Len(d) + 1 ELSE CHOOSE i \in dot : TRUE
        ip   == SubSeq(d, 1, k - 1)
        fp   == SubSeq(d, k + 1, Len(d))
        all  == ip \o fp
        mag  == FDiv(FromInt(DigitsValue(all)), FromInt(10^Len(fp)))
    IN  IF Cardinality(dot) <= 1 /\ IsDigits(all)
        THEN [ok |-> TRUE,
              val |-> IF Signed(t) /\ t[1] = "-" /\ mag # FZero
                      THEN [mag EXCEPT !.s = 1] ELSE mag]
        ELSE [ok |-> FALSE]

\* the decimal places up to which a written number is followed
ReprPlaces == 1

\* float.__repr__, which json.dump writes for a float: the numeral with the
\* fewest digits that float() reads back as x and, of these, the nearest to x.
\* Followed for the floats below 2^31 whose numeral has at most ReprPlaces
\* decimal places; such a numeral has no exponent.
FloatRepr(x) ==
    LET RECURSIVE ToNat(_)
        ToNat(a) == IF a = <<>> THEN 0 ELSE a[1] + Base * ToNat(Tail(a))
        RECURSIVE Digits(_, _)
        Digits(n, width) ==
            IF n = 0 /\ width <= 0 THEN <<>>
            ELSE Digits(n \div 10, width - 1)
                 \o <<<<"0", "1", "2", "3", "4", "5", "6", "7", "8", "9">>[(n % 10) + 1]>>
        \* the numeral of c / 10^p
        text(c, p) ==
            LET ds == Digits(c, p + 1)
            IN  (IF x.s = 1 THEN <<"-">> ELSE <<>>)
                \o SubSeq(ds, 1, Len(ds) - p) \o <<".">>
                \o (IF p = 0 THEN <<"0">> ELSE SubSeq(ds, Len(ds) - p + 1, Len(ds)))
        \* |x| * 10^p = scaled * 2^x.e, the numeral below it and the one above,
        \* each with its distance from x in units of 2^x.e
        around(p) ==
            UNION {UNION {{[p |-> p, c |-> ToNat(lo), far |-> BSub(scaled, BShl(lo, 0 - x.e))],
                           [p |-> p, c |-> ToNat(lo) + 1,
                            far |-> BSub(BShl(BAdd(lo, <<1>>), 0 - x.e), scaled)]} :
                          lo \in {BShr(scaled, 0 - x.e)}} :
                   scaled \in {BMul(x.m, BFromNat(10^p))}}
        reads  == {r \in UNION {around(p) : p \in 0..ReprPlaces} :
                      ParseFloat(text(r.c, r.p)) = [ok |-> TRUE, val |-> x]}
        before(r, q) ==
            \/ r.p < q.p
            \/ r.p = q.p /\ BCmp(r.far, q.far) < 0
            \/ r.p = q.p /\ r.far = q.far /\ r.c % 2 = 0
        best(rs) == CHOOSE r \in rs : \A q \in rs \ {r} : before(r, q)
    IN  IF x.m = <<>> THEN <<"0", ".", "0">>
        ELSE CHOOSE t \in {text(r.c, r.p) : r \in {best(rs) : rs \in {reads}}} : TRUE

(***************************************************************************)
(* The PDF library's constants (PyMuPDF's fitz module).                    *)
(***************************************************************************)
PDF_WIDGET_TYPE_UNKNOWN == 0
PDF_WIDGET_TYPE_BUTTON == 1
PDF_WIDGET_TYPE_CHECKBOX == 2
PDF_WIDGET_TYPE_COMBOBOX == 3
PDF_WIDGET_TYPE_LISTBOX == 4
PDF_WIDGET_TYPE_RADIOBUTTON == 5
PDF_WIDGET_TYPE_SIGNATURE == 6
PDF_WIDGET_TYPE_TEXT == 7
PDF_FIELD_IS_READ_ONLY == 2^0
PDF_TX_FIELD_IS_MULTILINE == 2^12
PDF_TX_FIELD_IS_PASSWORD == 2^13
PDF_TX_FIELD_IS_COMB == 2^24

WidgetTypes == PDF_WIDGET_TYPE_UNKNOWN..PDF_WIDGET_TYPE_TEXT

\* a & b on non-negative ints
RECURSIVE BitAnd(_, _)
BitAnd(a, b) ==
    IF a = 0 \/ b = 0 THEN 0
    ELSE (a % 2) * (b % 2) + 2 * BitAnd(a \div 2, b \div 2)

\* the six labels of FormField.field_type
FieldTypes == {"text", "multiline", "checkbox", "comb", "radio", "textarea"}

\* the height above which a multiline text widget is a text area
TextAreaHeight == 50

\* variants of the classifier's tests, for comparison
ReachesTextAreaHeight(height) == FCmp(height, FromInt(TextAreaHeight)) >= 0

TextLabelMultilineFirst(field_flags, height) ==
    IF BitAnd(field_flags, PDF_TX_FIELD_IS_MULTILINE) # 0
    THEN (IF FGt(height, FromInt(TextAreaHeight)) THEN "textarea" ELSE "multiline")
    ELSE IF BitAnd(field_flags, PDF_TX_FIELD_IS_COMB) # 0 THEN "comb"
    ELSE "text"

OtherLabelListAsText(widget_type) ==
    IF widget_type = PDF_WIDGET_TYPE_CHECKBOX THEN "checkbox"
    ELSE IF widget_type = PDF_WIDGET_TYPE_RADIOBUTTON THEN "radio"
    ELSE "text"

OtherLabelNoDefault(widget_type) ==
    IF widget_type = PDF_WIDGET_TYPE_CHECKBOX THEN "checkbox"
    ELSE IF widget_type = PDF_WIDGET_TYPE_RADIOBUTTON THEN "radio"
    ELSE IF widget_type = PDF_WIDGET_TYPE_COMBOBOX THEN "text"
    ELSE IF widget_type = PDF_WIDGET_TYPE_LISTBOX THEN "textarea"
    ELSE "none"

(***************************************************************************)
(* _get_field_type_from_widget: the label of a widget of the PDF library,  *)
(* from its field_type, field_flags and rect = <<x0, y0, x1, y1>>.         *)
(***************************************************************************)
\* height > 50
IsTextArea(height) == FGt(height, FromInt(TextAreaHeight))

\* the branch of a Text widget
TextLabel(field_flags, height) ==
    IF BitAnd(field_flags, PDF_TX_FIELD_IS_COMB) # 0 THEN "comb"
    ELSE IF BitAnd(field_flags, PDF_TX_FIELD_IS_MULTILINE) # 0
    THEN (IF IsTextArea(height) THEN "textarea" ELSE "multiline")
    ELSE "text"

\* the branches of the other widget types
OtherLabel(widget_type) ==
    IF widget_type = PDF_WIDGET_TYPE_CHECKBOX THEN "checkbox"
    ELSE IF widget_type = PDF_WIDGET_TYPE_RADIOBUTTON THEN "radio"
    ELSE IF widget_type = PDF_WIDGET_TYPE_COMBOBOX THEN "text"
    ELSE IF widget_type = PDF_WIDGET_TYPE_LISTBOX THEN "textarea"
    ELSE "text"

GetFieldTypeFromWidget(widget) ==
    IF widget.field_type = PDF_WIDGET_TYPE_TEXT
    THEN TextLabel(widget.field_flags, FSub(widget.rect[4], widget.rect[2]))
    ELSE OtherLabel(widget.field_type)

(***************************************************************************)
(* The rasterization matrix fitz.Matrix(150 / 72, 150 / 72), as built in   *)
(* draw_fields and, again, in on_mouse_release.                            *)
(***************************************************************************)
RenderDpi == 150
PointsPerInch == 72

DrawMat ==
    [a |-> FDiv(FromInt(RenderDpi), FromInt(PointsPerInch)),
     d |-> FDiv(FromInt(RenderDpi), FromInt(PointsPerInch))]

\* variants of the release matrix and of the swap of the corners, for comparison
ReleaseMatFloorDiv ==
    [a |-> FromInt(RenderDpi \div PointsPerInch), d |-> FromInt(RenderDpi \div PointsPerInch)]

UnswappedCorners(x0, y0, x1, y1) == <<x0, y0, x1, y1>>

ReleaseMat ==
    [a |-> FDiv(FromInt(RenderDpi), FromInt(PointsPerInch)),
     d |-> FDiv(FromInt(RenderDpi), FromInt(PointsPerInch))]

\* draw_fields: a PDF point <<x, y>> in canvas coordinates
ToCanvas(p) == LET mat == DrawMat IN <<FMul(p[1], mat.a), FMul(p[2], mat.d)>>

\* on_mouse_release: a canvas point <<x, y>> in PDF coordinates
ToPdf(c) == LET mat == ReleaseMat IN <<FDiv(c[1], mat.a), FDiv(c[2], mat.d)>>

\* on_mouse_release: the canvas corners of a drag, swapped as needed
NormalizedCorners(x0, y0, x1, y1) ==
    LET sx == FGt(x0, x1)
        sy == FGt(y0, y1)
    IN  <<IF sx THEN x1 ELSE x0, IF sy THEN y1 ELSE y0,
          IF sx THEN x0 ELSE x1, IF sy THEN y0 ELSE y1>>

(***************************************************************************)
(* Values of the program.  Python's None is <<>> where a tuple or a list   *)
(* may stand, "" where a string may, and NoSelection for the index.        *)
(***************************************************************************)
NoSelection == -1
NoDoc == ""
Black == <<FZero, FZero, FZero>>
White == <<FromInt(1), FromInt(1), FromInt(1)>>

\* load_default_styles: default_config
DefaultConfig ==
    [border_color |-> Black, fill_color |-> White, font_color |-> Black,
     border_width |-> FromInt(1), font_size |-> FromInt(12)]

\* a name numbered by the fields there were before the new one
FieldNameFromZero(field_type, n) == field_type \o "_" \o ToString(n - 1)

\* str(n) and the f-strings of the program
FieldName(field_type, n) == field_type \o "_" \o ToString(n)
DetectedName(n) == "field_" \o ToString(n)
ListEntry(field) ==
    "[P" \o ToString(field.page_num + 1) \o "] " \o field.field_type \o ": " \o field.name

\* FormField(...)
FormField(field_type, rect, name, page_num, max_chars, border_color, fill_color, border_width, font_size, font_color) ==
    [field_type |-> field_type, rect |-> rect, name |-> name, page_num |-> page_num,
     max_chars |-> max_chars, border_color |-> border_color, fill_color |-> fill_color,
     border_width |-> border_width, font_size |-> font_size, font_color |-> font_color]

(***************************************************************************)
(* The files the user can pick.  A document is what fitz.open gives: its   *)
(* pages, each with the widgets page.widgets() yields; opens, loads and    *)
(* renders say whether fitz.open, doc[n] and page.get_pixmap succeed.      *)
(***************************************************************************)
Rect(x0, y0, x1, y1) == <<FromInt(x0), FromInt(y0), FromInt(x1), FromInt(y1)>>

\* a widget as read from a page; a missing colour is <<>>, raises: reading it fails
PageWidget(field_type, field_flags, rect, field_name, text_maxlen, raises) ==
    [field_type |-> field_type, field_flags |-> field_flags, rect |-> rect,
     field_name |-> field_name, text_maxlen |-> text_maxlen, raises |-> raises,
     border_color |-> <<>>, fill_color |-> <<>>, text_color |-> Black,
     border_width |-> FZero, text_fontsize |-> FromInt(9)]

Page(loads, renders, widgets) == [loads |-> loads, renders |-> renders, widgets |-> widgets]

Files ==
    [name \in {"blank.pdf", "form.pdf", "mixed.pdf", "locked.pdf", "damaged.pdf",
                 "corrupt.pdf"} |->
      CASE name = "blank.pdf" ->
             [opens |-> TRUE, pages |-> <<Page(TRUE, TRUE, <<>>), Page(TRUE, TRUE, <<>>)>>]
        [] name = "form.pdf" ->
             [opens |-> TRUE,
              pages |-> <<Page(TRUE, TRUE,
                               <<PageWidget(PDF_WIDGET_TYPE_TEXT, PDF_TX_FIELD_IS_MULTILINE,
                                            Rect(10, 10, 210, 90), "notes", 0, FALSE)>>),
                          Page(TRUE, TRUE,
                               <<PageWidget(PDF_WIDGET_TYPE_CHECKBOX, 0,
                                            Rect(10, 10, 22, 22), "", 0, FALSE)>>)>>]
        [] name = "mixed.pdf" ->
             [opens |-> TRUE,
              pages |-> <<Page(TRUE, TRUE,
                               <<PageWidget(PDF_WIDGET_TYPE_TEXT, 0,
                                            Rect(10, 10, 210, 30), "first", 0, FALSE),
                                 PageWidget(PDF_WIDGET_TYPE_CHECKBOX, 0,
                                            Rect(10, 10, 22, 22), "broken", 0, TRUE),
                                 PageWidget(PDF_WIDGET_TYPE_CHECKBOX, 0,
                                            Rect(10, 10, 22, 22), "", 0, FALSE)>>)>>]
        [] name = "locked.pdf" ->
             [opens |-> TRUE, pages |-> <<Page(FALSE, FALSE, <<>>)>>]
        [] name = "damaged.pdf" ->
             [opens |-> TRUE,
              pages |-> <<Page(TRUE, FALSE,
                               <<PageWidget(PDF_WIDGET_TYPE_TEXT, PDF_TX_FIELD_IS_COMB,
                                            Rect(10, 10, 210, 30), "code", 8, FALSE)>>)>>]
        [] OTHER -> [opens |-> FALSE, pages |-> <<>>]]

\* the preference file as load_default_styles finds it: exists, readable,
\* parsed and object say whether os.path.exists, open and json.load succeed and
\* whether the value is a JSON object; config maps the keys the object has to
\* [iter, val], val the value and iter whether tuple() accepts it
config_file == ".pdf_form_builder_config.json"

ConfigFile(exists, readable, parsed, object, config) ==
    [exists |-> exists, readable |-> readable, parsed |-> parsed, object |-> object,
     config |-> config]

NoConfigFile == ConfigFile(FALSE, FALSE, FALSE, FALSE, <<>>)

\* the pixel coordinates of the mouse events, and the texts typed in the
\* border-width and font-size entries
Pixels == {-20, 31, 50, 175, 260}
EntryTexts == {<<"2", ".", "5">>, <<"1", "4">>, <<"a", "b", "c">>, <<>>}

\* the colours picked in the three colour choosers of the style settings window:
\* colorchooser.askcolor gives components from 0 to 255, kept as c / 255.0
ChosenColors ==
    CHOOSE colors \in {[border_color |-> <<s[1], s[2], s[3]>>,
                        fill_color   |-> <<s[3], s[1], s[2]>>,
                        font_color   |-> <<s[2], s[3], s[1]>>] :
                       s \in {<<FDiv(FromInt(51), FromInt(255)), FDiv(FromInt(255), FromInt(255)),
                                FDiv(FromInt(0), FromInt(255))>>}} : TRUE

(***************************************************************************)
(* detect_existing_fields: the scan of the pages of a document             *)
(***************************************************************************)
\* the FormField made of a widget, the detected_count-th one found
DetectedField(widget, page_num, detected_count) ==
    FormField(GetFieldTypeFromWidget(widget),
              widget.rect,
              IF widget.field_name # "" THEN widget.field_name
                                        ELSE DetectedName(detected_count + 1),
              page_num,
              IF widget.field_type = PDF_WIDGET_TYPE_TEXT THEN widget.text_maxlen ELSE 0,
              IF widget.border_color # <<>> THEN widget.border_color ELSE Black,
              IF widget.fill_color # <<>> THEN widget.fill_color ELSE White,
              IF widget.border_width # FZero THEN widget.border_width ELSE FromInt(1),
              IF widget.text_fontsize # FZero THEN widget.text_fontsize ELSE FromInt(12),
              IF widget.text_color # <<>> THEN widget.text_color ELSE Black)

\* a loop over the widgets of a page that ends at the first widget that raises
RECURSIVE DetectWidgetsUntilRaise(_, _, _, _, _)
DetectWidgetsUntilRaise(ws, page_num, fs, detected_count, i) ==
    IF i > Len(ws) \/ ws[i].raises THEN [fields |-> fs, count |-> detected_count]
    ELSE DetectWidgetsUntilRaise(ws, page_num,
                                 Append(fs, DetectedField(ws[i], page_num, detected_count)),
                                 detected_count + 1, i + 1)

\* the loop over the widgets of a page, from widget i on: [fields, count]
RECURSIVE DetectWidgets(_, _, _, _, _)
DetectWidgets(ws, page_num, fs, detected_count, i) ==
    IF i > Len(ws) THEN [fields |-> fs, count |-> detected_count]
    ELSE IF ws[i].raises
    THEN DetectWidgets(ws, page_num, fs, detected_count, i + 1)
    ELSE DetectWidgets(ws, page_num,
                       Append(fs, DetectedField(ws[i], page_num, detected_count)),
                       detected_count + 1, i + 1)

\* the loop over the pages, from page_num on: [fields, count, aborted]; a page
\* that does not load raises out of the loop, into the outer except clause
RECURSIVE DetectPages(_, _, _, _)
DetectPages(pages, fs, detected_count, page_num) ==
    IF page_num >= Len(pages)
    THEN [fields |-> fs, count |-> detected_count, aborted |-> FALSE]
    ELSE IF ~pages[page_num + 1].loads
    THEN [fields |-> fs, count |-> detected_count, aborted |-> TRUE]
    ELSE LET r == DetectWidgets(pages[page_num + 1].widgets, page_num,
                                fs, detected_count, 1)
         IN  DetectPages(pages, r.fields, r.count, page_num + 1)

(***************************************************************************)
(* The arithmetic of the handlers over the values they meet, worked out    *)
(* once: canvasx(px), the canvas-to-PDF and PDF-to-canvas conversions,     *)
(* float(text) for the texts typed and for the numerals json.load meets,   *)
(* the numeral json.dump writes for a style value, and the scan of a file  *)
(* by detect_existing_fields when the field list is empty, as open_pdf     *)
(* calls it.  by_scale is c / (150 / 72).                                   *)
(***************************************************************************)
(* The arithmetic of the handlers over the values they meet, worked out    *)
(* once: canvasx(px), the canvas-to-PDF and PDF-to-canvas conversions,     *)
(* float(text), and the scan of a file by detect_existing_fields when the  *)
(* field list is empty, as open_pdf calls it.  by_scale is c / (150 / 72). *)
(***************************************************************************)
WidgetCoords ==
    UNION {UNION {UNION {{Files[f].pages[k].widgets[j].rect[i] : i \in 1..4} :
                         j \in 1..Len(Files[f].pages[k].widgets)} :
                  k \in 1..Len(Files[f].pages)} :
           f \in DOMAIN Files}

Conversions ==
    LET cx == [px \in Pixels |-> FromInt(px)]
        cs == {cx[px] : px \in Pixels}
        tp == [c \in cs |-> ToPdf(<<c, c>>)]
        ps == {tp[c][1] : c \in cs} \cup {tp[c][2] : c \in cs} \cup WidgetCoords
    IN  [canvasx   |-> cx,
         to_pdf    |-> tp,
         to_canvas |-> [p \in ps |-> ToCanvas(<<p, p>>)],
         by_scale  |-> [c \in cs |-> FDiv(c, FDiv(FromInt(RenderDpi), FromInt(PointsPerInch)))],
         float     |-> [t \in EntryTexts |-> ParseFloat(t)],
         detected  |-> [f \in DOMAIN Files |-> DetectPages(Files[f].pages, <<>>, 0, 0)]]

(***************************************************************************)
(* The numbers of the preference file, worked out once: repr is the        *)
(* numeral json.dump writes for a style value, read the number json.load   *)
(* makes of such a numeral, chosen the colours of the choosers.  The style *)
(* values are the defaults, the numbers typed in the entries and the       *)
(* components of the colours chosen.                                        *)
(***************************************************************************)
Written ==
    CHOOSE w \in
        UNION {{[repr |-> r, read |-> [t \in {r[v] : v \in DOMAIN r} |-> ParseFloat(t).val],
                 chosen |-> c] :
                r \in {[v \in {d[k] : k \in {"border_width", "font_size"}}
                              \cup {p.val : p \in {q \in {ParseFloat(t) : t \in EntryTexts} : q.ok}}
                              \cup UNION {{d[k][i], c[k][i]} :
                                          i \in 1..3,
                                          k \in {"border_color", "fill_color", "font_color"}}
                        |-> FloatRepr(v)]}} :
               c \in {ChosenColors}, d \in {DefaultConfig}} : TRUE

VARIABLES
    pdf_doc,            \* the name of the open document, or NoDoc
    current_page,
    fields,             \* the list of FormField
    current_field_type,
    selection_start,    \* <<x, y>> of the mouse press, or <<>>
    selected_field_idx, \* an index of fields from 0, or NoSelection
    listbox,            \* fields_listbox: its entries
    curselection,       \* fields_listbox: the selected entry from 0, or NoSelection
    canvas,             \* the rectangles drawn: [items, temp]
    defaults,           \* the five default_* style attributes
    last,               \* what the last handler showed and wrote: [msgs, out]
    probe,              \* the input and the result of a function applied on its own
    disk,               \* the files, by name
    arith               \* Conversions and Written

vars == <<pdf_doc, current_page, fields, current_field_type, selection_start,
          selected_field_idx, listbox, curselection, canvas, defaults, last, probe,
          disk, arith>>

Quiet == [msgs |-> <<>>, out |-> <<>>]
Shown(msg) == [msgs |-> <<msg>>, out |-> <<>>]
\* an exception no handler catches: Tk reports it and the callback ends
Uncaught == Shown("traceback")

NoProbe == [kind |-> "none"]

\* __init__
Start ==
    /\ pdf_doc = NoDoc
    /\ current_page = 0
    /\ fields = <<>>
    /\ current_field_type = "text"
    /\ selection_start = <<>>
    /\ selected_field_idx = NoSelection
    /\ listbox = <<>>
    /\ curselection = NoSelection
    /\ canvas = [items |-> <<>>, temp |-> <<>>]
    /\ defaults = DefaultConfig
    /\ last = Quiet
    /\ disk = Files @@ (config_file :> NoConfigFile)
    /\ arith = Conversions @@ Written

Init == Start /\ probe = NoProbe

\* len(doc)
PageCount(doc) == Len(disk[doc].pages)

\* draw_fields: a PDF rect in canvas coordinates
ToCanvasRect(rect) ==
    <<arith.to_canvas[rect[1]][1], arith.to_canvas[rect[2]][2],
      arith.to_canvas[rect[3]][1], arith.to_canvas[rect[4]][2]>>

\* on_mouse_release: canvas corners as a PDF rect
ToPdfRect(c) ==
    <<arith.to_pdf[c[1]][1], arith.to_pdf[c[2]][2],
      arith.to_pdf[c[3]][1], arith.to_pdf[c[4]][2]>>

\* draw_fields: colors
OutlineColor ==
    [t \in FieldTypes |->
      CASE t = "text" -> "blue" [] t = "multiline" -> "green" [] t = "checkbox" -> "red"
        [] t = "comb" -> "purple" [] t = "radio" -> "orange" [] OTHER -> "cyan"]

\* draw_fields: the rectangles of the fields of the page, from field i on
RECURSIVE DrawFieldsFrom(_, _, _, _)
DrawFieldsFrom(fs, page, selected, i) ==
    IF i > Len(fs) THEN <<>>
    ELSE IF fs[i].page_num = page
    THEN <<[rect |-> ToCanvasRect(fs[i].rect), outline |-> OutlineColor[fs[i].field_type],
            width |-> IF i - 1 = selected THEN 3 ELSE 2, tag |-> i - 1]>>
         \o DrawFieldsFrom(fs, page, selected, i + 1)
    ELSE DrawFieldsFrom(fs, page, selected, i + 1)

DrawFields(fs, page, selected) == DrawFieldsFrom(fs, page, selected, 1)

\* render_page raises: the page does not load or does not rasterize
RenderRaises(doc, page) ==
    /\ doc # NoDoc
    /\ \/ page + 1 > PageCount(doc)
       \/ ~disk[doc].pages[page + 1].loads
       \/ ~disk[doc].pages[page + 1].renders

\* render_page: the canvas after it, cv when it returns early or raises
RenderPage(doc, page, fs, selected, cv) ==
    IF doc = NoDoc \/ RenderRaises(doc, page) THEN cv
    ELSE [items |-> DrawFields(fs, page, selected), temp |-> <<>>]

\* update_fields_list: the entries of the listbox
FieldsList(fs) == [i \in 1..Len(fs) |-> ListEntry(fs[i])]

\* detect_existing_fields on an empty field list: the fields, the listbox, the
\* canvas and the messages after it
DetectExistingFields(doc, page, selected, lb, cs, cv) ==
    LET r       == arith.detected[doc]
        listed  == ~r.aborted /\ r.count > 0
        drawn   == listed /\ ~RenderRaises(doc, page)
    IN  [fields       |-> r.fields,
         listbox      |-> IF listed THEN FieldsList(r.fields) ELSE lb,
         curselection |-> IF listed THEN NoSelection ELSE cs,
         canvas       |-> IF drawn THEN RenderPage(doc, page, r.fields, selected, cv) ELSE cv,
         msgs         |-> IF drawn THEN <<"Fields Detected">> ELSE <<>>]

(***************************************************************************)
(* The handlers.  The text of an entry widget is an input of the handler   *)
(* that reads it.                                                           *)
(***************************************************************************)
on_field_type_change(value) ==
    /\ current_field_type' = value
    /\ last' = Quiet
    /\ UNCHANGED <<pdf_doc, current_page, fields, selection_start, selected_field_idx,
                   listbox, curselection, canvas, defaults, probe, disk, arith>>

\* filename: the file chosen in the dialog, "" when it is cancelled
open_pdf(filename) ==
    IF filename = "" THEN
        /\ last' = Quiet
        /\ UNCHANGED <<pdf_doc, current_page, fields, current_field_type, selection_start,
                       selected_field_idx, listbox, curselection, canvas, defaults, probe, disk, arith>>
    ELSE IF ~disk[filename].opens THEN
        /\ last' = Shown("Failed to open PDF")
        /\ UNCHANGED <<pdf_doc, current_page, fields, current_field_type, selection_start,
                       selected_field_idx, listbox, curselection, canvas, defaults, probe, disk, arith>>
    ELSE
        LET d == DetectExistingFields(filename, 0, NoSelection,
                                      listbox, curselection, canvas)
        IN  /\ pdf_doc' = filename
            /\ current_page' = 0
            /\ fields' = d.fields
            /\ selected_field_idx' = NoSelection
            /\ IF RenderRaises(filename, 0)
               THEN /\ listbox' = d.listbox
                    /\ curselection' = d.curselection
                    /\ canvas' = d.canvas
                    /\ last' = [msgs |-> d.msgs \o <<"Failed to open PDF">>, out |-> <<>>]
               ELSE /\ listbox' = FieldsList(d.fields)
                    /\ curselection' = NoSelection
                    /\ canvas' = RenderPage(filename, 0, d.fields, NoSelection, d.canvas)
                    /\ last' = [msgs |-> d.msgs, out |-> <<>>]
            /\ UNCHANGED <<current_field_type, selection_start, defaults, probe, disk, arith>>

on_mouse_press(x, y) ==
    /\ selection_start' = IF pdf_doc = NoDoc THEN selection_start
                          ELSE <<arith.canvasx[x], arith.canvasx[y]>>
    /\ last' = Quiet
    /\ UNCHANGED <<pdf_doc, current_page, fields, current_field_type, selected_field_idx,
                   listbox, curselection, canvas, defaults, probe, disk, arith>>

on_mouse_drag(x, y) ==
    /\ canvas' = IF pdf_doc = NoDoc \/ selection_start = <<>> THEN canvas
                 ELSE [canvas EXCEPT !.temp = <<selection_start[1], selection_start[2],
                                                 arith.canvasx[x], arith.canvasx[y]>>]
    /\ last' = Quiet
    /\ UNCHANGED <<pdf_doc, current_page, fields, current_field_type, selection_start,
                   selected_field_idx, listbox, curselection, defaults, probe, disk, arith>>

\* the FormField of a drag from selection_start to (x, y)
DraggedField(x, y, max_chars) ==
    FormField(current_field_type,
              ToPdfRect(NormalizedCorners(selection_start[1], selection_start[2],
                                          arith.canvasx[x], arith.canvasx[y])),
              FieldName(current_field_type, Len(fields) + 1),
              current_page,
              max_chars,
              defaults.border_color, defaults.fill_color,
              defaults.border_width, defaults.font_size, defaults.font_color)

\* comb_chars: the text of the "Comb Chars" entry
on_mouse_release(x, y, comb_chars) ==
    IF pdf_doc = NoDoc \/ selection_start = <<>> THEN
        /\ last' = Quiet
        /\ UNCHANGED <<pdf_doc, current_page, fields, current_field_type, selection_start,
                       selected_field_idx, listbox, curselection, canvas, defaults, probe, disk, arith>>
    ELSE IF current_field_type = "comb" /\ ~ParseInt(comb_chars).ok THEN
        /\ canvas' = [canvas EXCEPT !.temp = <<>>]
        /\ last' = Uncaught
        /\ UNCHANGED <<pdf_doc, current_page, fields, current_field_type, selection_start,
                       selected_field_idx, listbox, curselection, defaults, probe, disk, arith>>
    ELSE
        LET max_chars == IF current_field_type = "comb" THEN ParseInt(comb_chars).val ELSE 0
            fs        == Append(fields, DraggedField(x, y, max_chars))
            cleared   == [canvas EXCEPT !.temp = <<>>]
        IN  /\ fields' = fs
            /\ selection_start' = <<>>
            /\ IF RenderRaises(pdf_doc, current_page)
               THEN /\ canvas' = cleared
                    /\ last' = Uncaught
                    /\ UNCHANGED <<listbox, curselection>>
               ELSE /\ canvas' = RenderPage(pdf_doc, current_page, fs, selected_field_idx,
                                            cleared)
                    /\ listbox' = FieldsList(fs)
                    /\ curselection' = NoSelection
                    /\ last' = Quiet
            /\ UNCHANGED <<pdf_doc, current_page, current_field_type, selected_field_idx,
                           defaults, probe, disk, arith>>

\* selection: the entry the user has selected in the listbox, NoSelection when
\* the selection is lost
on_field_select(selection) ==
    IF selection = NoSelection THEN
        /\ curselection' = selection
        /\ last' = Quiet
        /\ UNCHANGED <<pdf_doc, current_page, fields, current_field_type, selection_start,
                       selected_field_idx, listbox, canvas, defaults, probe, disk, arith>>
    ELSE
        /\ curselection' = selection
        /\ selected_field_idx' = selection
        /\ IF selection >= Len(fields) \/ RenderRaises(pdf_doc, current_page)
           THEN /\ last' = Uncaught
                /\ UNCHANGED canvas
           ELSE /\ last' = Quiet
                /\ canvas' = RenderPage(pdf_doc, current_page, fields, selection, canvas)
        /\ UNCHANGED <<pdf_doc, current_page, fields, current_field_type, selection_start,
                       listbox, defaults, probe, disk, arith>>

\* border_width_text, font_size_text: the texts of the two entries
update_field_appearance(border_width_text, font_size_text) ==
    LET bw == arith.float[border_width_text]
        fz == arith.float[font_size_text]
        i  == selected_field_idx + 1
    IN  /\ IF selected_field_idx = NoSelection THEN
                /\ last' = Quiet
                /\ UNCHANGED fields
           ELSE IF selected_field_idx >= Len(fields) THEN
                /\ last' = Uncaught
                /\ UNCHANGED fields
           ELSE IF ~bw.ok THEN
                /\ last' = Shown("Invalid Value")
                /\ UNCHANGED fields
           ELSE IF ~fz.ok THEN
                /\ last' = Shown("Invalid Value")
                /\ fields' = [fields EXCEPT ![i].border_width = bw.val]
           ELSE
                /\ last' = Quiet
                /\ fields' = [fields EXCEPT ![i].border_width = bw.val,
                                            ![i].font_size = fz.val]
        /\ UNCHANGED <<pdf_doc, current_page, current_field_type, selection_start,
                       selected_field_idx, listbox, curselection, canvas, defaults, probe, disk, arith>>

\* a range test that lets the page count itself through
ValidPageInclusive(page_num, doc) == 0 <= page_num /\ page_num <= PageCount(doc)

\* 0 <= page_num < len(self.pdf_doc)
ValidPage(page_num, doc) == 0 <= page_num /\ page_num < PageCount(doc)

\* page_text: the text of the "Page" entry
go_to_page(page_text) ==
    LET n == ParseInt(page_text) IN
    /\ IF ~n.ok THEN
            /\ last' = Shown("Invalid Input")
            /\ UNCHANGED <<current_page, canvas>>
       ELSE IF pdf_doc = NoDoc THEN
            /\ last' = Uncaught
            /\ UNCHANGED <<current_page, canvas>>
       ELSE IF ValidPage(n.val - 1, pdf_doc) THEN
            /\ current_page' = n.val - 1
            /\ IF RenderRaises(pdf_doc, n.val - 1)
               THEN last' = Uncaught /\ UNCHANGED canvas
               ELSE /\ last' = Quiet
                    /\ canvas' = RenderPage(pdf_doc, n.val - 1, fields, selected_field_idx,
                                            canvas)
       ELSE
            /\ last' = Shown("Invalid Page")
            /\ UNCHANGED <<current_page, canvas>>
    /\ UNCHANGED <<pdf_doc, fields, current_field_type, selection_start,
                   selected_field_idx, listbox, curselection, defaults, probe, disk, arith>>

(***************************************************************************)
(* save_form_pdf                                                            *)
(***************************************************************************)
\* fitz.Widget()
NewWidget ==
    [field_name |-> "", rect |-> <<>>, border_width |-> FZero, border_color |-> <<>>,
     fill_color |-> <<>>, text_font |-> "Helv", text_fontsize |-> FZero,
     text_color |-> Black, field_type |-> PDF_WIDGET_TYPE_UNKNOWN, field_flags |-> 0,
     text_maxlen |-> 0, field_value |-> ""]

\* a variant of the comb branch, for comparison
CombWidgetNoLimit(w, field) ==
    [w EXCEPT !.field_type = PDF_WIDGET_TYPE_TEXT, !.field_flags = PDF_TX_FIELD_IS_COMB]

\* the branch of a comb field
CombWidget(w, field) ==
    [w EXCEPT !.field_type = PDF_WIDGET_TYPE_TEXT,
              !.field_flags = PDF_TX_FIELD_IS_COMB,
              !.text_maxlen = field.max_chars]

\* a variant of the branches that sets no field flags, for comparison
ExportWidgetUnflagged(field) ==
    [NewWidget EXCEPT !.field_name = field.name,
                      !.rect = field.rect,
                      !.field_type = IF field.field_type = "checkbox" THEN PDF_WIDGET_TYPE_CHECKBOX
                                     ELSE IF field.field_type = "radio" THEN PDF_WIDGET_TYPE_RADIOBUTTON
                                     ELSE PDF_WIDGET_TYPE_TEXT]

\* the widget built for a field
ExportWidget(field) ==
    LET w == [NewWidget EXCEPT !.field_name = field.name,
                               !.rect = field.rect,
                               !.border_width = field.border_width,
                               !.border_color = field.border_color,
                               !.fill_color = field.fill_color,
                               !.text_font = "helv",
                               !.text_fontsize = field.font_size,
                               !.text_color = field.font_color]
    IN  IF field.field_type = "text"
        THEN [w EXCEPT !.field_type = PDF_WIDGET_TYPE_TEXT, !.text_maxlen = 0]
        ELSE IF field.field_type = "multiline"
        THEN [w EXCEPT !.field_type = PDF_WIDGET_TYPE_TEXT,
                       !.field_flags = PDF_TX_FIELD_IS_MULTILINE, !.text_maxlen = 0]
        ELSE IF field.field_type = "textarea"
        THEN [w EXCEPT !.field_type = PDF_WIDGET_TYPE_TEXT,
                       !.field_flags = PDF_TX_FIELD_IS_MULTILINE, !.text_maxlen = 0]
        ELSE IF field.field_type = "checkbox"
        THEN [w EXCEPT !.field_type = PDF_WIDGET_TYPE_CHECKBOX, !.field_value = "Off"]
        ELSE IF field.field_type = "comb"
        THEN CombWidget(w, field)
        ELSE IF field.field_type = "radio"
        THEN [w EXCEPT !.field_type = PDF_WIDGET_TYPE_RADIOBUTTON, !.field_value = "Off"]
        ELSE w

\* a variant of the loop, for comparison
ExportWidgetsOnFirstPage(fs) == [i \in 1..Len(fs) |-> [page |-> 0, widget |-> ExportWidget(fs[i])]]

\* the loop over the fields: what page.add_widget has attached, in order
ExportWidgets(fs) == [i \in 1..Len(fs) |-> [page |-> fs[i].page_num, widget |-> ExportWidget(fs[i])]]

\* output_doc[field.page_num] raises for some field
BadPage(fs, doc) ==
    \E i \in 1..Len(fs) : fs[i].page_num >= PageCount(doc) \/ fs[i].page_num < 0 - PageCount(doc)

\* filename: the file chosen in the dialog, "" when it is cancelled; fails: a call
\* of the PDF library (fitz.open, page.add_widget, output_doc.save) raises
save_form_pdf(filename, fails) ==
    /\ IF pdf_doc = NoDoc \/ fields = <<>> THEN last' = Shown("No Data")
       ELSE IF filename = "" THEN last' = Quiet
       ELSE IF fails \/ BadPage(fields, pdf_doc) THEN last' = Shown("Failed to save PDF")
       ELSE last' = [msgs |-> <<"Form PDF saved successfully">>,
                     out  |-> <<[name |-> filename, source |-> pdf_doc,
                                 added |-> ExportWidgets(fields),
                                 reported |-> Len(fields)]>>]
    /\ UNCHANGED <<pdf_doc, current_page, fields, current_field_type, selection_start,
                   selected_field_idx, listbox, curselection, canvas, defaults, probe, disk, arith>>


(***************************************************************************)
(* The user's actions.  MaxFields bounds the drags that create a field.    *)
(***************************************************************************)
MaxFields == 2

Selections == {NoSelection} \cup (0..(Len(listbox) - 1))
MayCreate == Len(fields) < MaxFields \/ pdf_doc = NoDoc \/ selection_start = <<>>

\* the texts typed in the entries
CombTexts == {<<"1", "0">>}
PageTexts == {<<"2">>, <<"x">>}

Next ==
    \/ \E f \in {"", "blank.pdf", "form.pdf"} : open_pdf(f)
    \/ \E t \in FieldTypes : on_field_type_change(t)
    \/ on_mouse_press(50, 50)
    \/ \E c \in CombTexts : MayCreate /\ on_mouse_release(175, 260, c)
    \/ \E t \in PageTexts : go_to_page(t)
    \/ \E n \in {"", "out.pdf"}, x \in BOOLEAN : save_form_pdf(n, x)

Spec == Init /\ [][Next]_vars

(***************************************************************************)
(* Drags between the corners of a box of the canvas, in every relative     *)
(* position of the press and the release.                                  *)
(***************************************************************************)
DragPoints == {<<-20, 31>>, <<175, 31>>, <<-20, 260>>, <<175, 260>>}

NextDrag ==
    \/ open_pdf("blank.pdf")
    \/ \E p \in DragPoints : on_mouse_press(p[1], p[2])
    \/ \E p \in DragPoints : on_mouse_drag(p[1], p[2])
    \/ \E p \in DragPoints, c \in CombTexts : MayCreate /\ on_mouse_release(p[1], p[2], c)

SpecDrag == Init /\ [][NextDrag]_vars

(***************************************************************************)
(* Files that fail to open, to load a page or to render, and texts in the  *)
(* entries that are not numbers.                                           *)
(***************************************************************************)
BorderTexts == {<<"2", ".", "5">>, <<"a", "b", "c">>}
FontTexts == {<<"1", "4">>, <<"a", "b", "c">>, <<>>}

NextFaults ==
    \/ \E f \in DOMAIN Files : open_pdf(f)
    \/ on_mouse_press(50, 50)
    \/ \E c \in CombTexts : MayCreate /\ on_mouse_release(175, 260, c)
    \/ \E t \in PageTexts : go_to_page(t)
    \/ \E i \in Selections : on_field_select(i)
    \/ \E b \in BorderTexts, z \in FontTexts : update_field_appearance(b, z)

SpecFaults == Init /\ [][NextFaults]_vars

(***************************************************************************)
(* _get_field_type_from_widget on its own: a widget is picked, classified, *)
(* and put away.  The ordinates of its rect are halves of integers, kept   *)
(* with the widget as <<2 * y0, 2 * y1>>.                                   *)
(***************************************************************************)
Half(n) == FDiv(FromInt(n), FromInt(2))

ProbeTypes == WidgetTypes \cup {PDF_WIDGET_TYPE_TEXT + 1}
ProbeFlags ==
    {0, PDF_TX_FIELD_IS_MULTILINE, PDF_TX_FIELD_IS_COMB,
     PDF_TX_FIELD_IS_MULTILINE + PDF_TX_FIELD_IS_COMB, PDF_TX_FIELD_IS_PASSWORD,
     PDF_TX_FIELD_IS_MULTILINE + PDF_FIELD_IS_READ_ONLY,
     PDF_TX_FIELD_IS_COMB + PDF_TX_FIELD_IS_PASSWORD}
ProbeHalves ==
    {<<0, 0>>, <<20, 80>>, <<20, 118>>, <<20, 119>>, <<20, 120>>, <<20, 121>>,
     <<20, 122>>, <<200, 80>>, <<1401, 1501>>, <<1401, 1502>>, <<20, 500>>}

ProbeWidget(t, f, h) ==
    [kind   |-> "widget",
     widget |-> [field_type |-> t, field_flags |-> f,
                 rect |-> <<FromInt(10), Half(h[1]), FromInt(210), Half(h[2])>>],
     halves |-> h,
     done   |-> FALSE,
     label  |-> ""]

PickWidget ==
    /\ probe = NoProbe
    /\ \E t \in ProbeTypes, f \in ProbeFlags, h \in ProbeHalves : probe' = ProbeWidget(t, f, h)
    /\ UNCHANGED <<pdf_doc, current_page, fields, current_field_type, selection_start,
                   selected_field_idx, listbox, curselection, canvas, defaults, last,
                   disk, arith>>

Classify ==
    /\ probe.kind = "widget"
    /\ ~probe.done
    /\ probe' = [probe EXCEPT !.done = TRUE, !.label = GetFieldTypeFromWidget(probe.widget)]
    /\ UNCHANGED <<pdf_doc, current_page, fields, current_field_type, selection_start,
                   selected_field_idx, listbox, curselection, canvas, defaults, last,
                   disk, arith>>

PutAway ==
    /\ probe.kind # "none"
    /\ probe' = NoProbe
    /\ UNCHANGED <<pdf_doc, current_page, fields, current_field_type, selection_start,
                   selected_field_idx, listbox, curselection, canvas, defaults, last,
                   disk, arith>>

NextClassify == PickWidget \/ Classify \/ PutAway

SpecClassify == Init /\ [][NextClassify]_vars

Classified == probe.kind = "widget" /\ probe.done
ProbeIsText == probe.widget.field_type = PDF_WIDGET_TYPE_TEXT
ProbeHas(flag) == BitAnd(probe.widget.field_flags, flag) # 0
\* twice the height of the probe's rect, exactly
ProbeHeight2 == probe.halves[2] - probe.halves[1]

\* C1: a Text widget with MULTILINE set and COMB unset is labelled textarea
\* exactly when its height y1 - y0 is above 50, and multiline when the height
\* is 50 or less.
C1_TextAreaAboveFifty ==
    (Classified /\ ProbeIsText /\ ProbeHas(PDF_TX_FIELD_IS_MULTILINE)
                /\ ~ProbeHas(PDF_TX_FIELD_IS_COMB))
    => /\ (probe.label = "textarea") <=> (ProbeHeight2 > 2 * 50)
       /\ (ProbeHeight2 <= 2 * 50) => (probe.label = "multiline")

C1_HeightFiftyIsMultiline ==
    /\ Classified /\ ProbeIsText
    /\ probe.widget.field_flags = PDF_TX_FIELD_IS_MULTILINE
    /\ ProbeHeight2 = 2 * 50
    /\ probe.label = "multiline"

\* C2: a Text widget with COMB set is labelled comb, whatever its other flags
\* and its height.
C2_CombWins == (Classified /\ ProbeIsText /\ ProbeHas(PDF_TX_FIELD_IS_COMB)) => probe.label = "comb"

C2_TallMultilineComb ==
    /\ Classified /\ ProbeIsText
    /\ probe.widget.field_flags = PDF_TX_FIELD_IS_MULTILINE + PDF_TX_FIELD_IS_COMB
    /\ ProbeHeight2 > 2 * 50
    /\ probe.label = "comb"

\* C3: whatever the flags and the rect, a Checkbox is labelled checkbox, a
\* RadioButton radio, a ComboBox text, a ListBox textarea and any other type
\* but Text is labelled text; a Text widget with neither COMB nor MULTILINE is
\* labelled text.
C3_LabelByType ==
    Classified =>
      /\ ~ProbeIsText =>
            probe.label = CASE probe.widget.field_type = PDF_WIDGET_TYPE_CHECKBOX -> "checkbox"
                            [] probe.widget.field_type = PDF_WIDGET_TYPE_RADIOBUTTON -> "radio"
                            [] probe.widget.field_type = PDF_WIDGET_TYPE_COMBOBOX -> "text"
                            [] probe.widget.field_type = PDF_WIDGET_TYPE_LISTBOX -> "textarea"
                            [] OTHER -> "text"
      /\ (ProbeIsText /\ ~ProbeHas(PDF_TX_FIELD_IS_COMB) /\ ~ProbeHas(PDF_TX_FIELD_IS_MULTILINE))
            => probe.label = "text"

C3_FlaggedListBox ==
    /\ Classified
    /\ probe.widget.field_type = PDF_WIDGET_TYPE_LISTBOX
    /\ probe.widget.field_flags = PDF_TX_FIELD_IS_MULTILINE + PDF_TX_FIELD_IS_COMB
    /\ probe.label = "textarea"

\* C4: the classifier is total: the label of a widget of any type, flags and
\* height is one of text, multiline, checkbox, comb, radio, textarea.
C4_Total ==
    Classified => probe.label \in {"text", "multiline", "checkbox", "comb", "radio", "textarea"}

C4_UnrecognisedType ==
    /\ Classified
    /\ probe.widget.field_type \notin WidgetTypes
    /\ probe.widget.field_flags = PDF_TX_FIELD_IS_MULTILINE
    /\ probe.label = "text"

(***************************************************************************)
(* The two conversions on their own: a PDF point is picked, converted to   *)
(* the canvas as draw_fields does, and back as on_mouse_release does.      *)
(***************************************************************************)
\* k * 2^j
Scaled(k, j) == FMul(FromInt(k), FromInt(2^j))

MapperCoords ==
    {FromInt(0), FromInt(31), FromInt(612), FromInt(-127), Half(1585),
     FDiv(FromInt(1), FromInt(10)), Scaled(2^30 - 1, 2), Scaled(16233, 20)}

PickPoint ==
    /\ probe = NoProbe
    /\ \E x \in MapperCoords, y \in MapperCoords :
          probe' = [kind |-> "point", pdf |-> <<x, y>>, canvas |-> <<>>, back |-> <<>>]
    /\ UNCHANGED <<pdf_doc, current_page, fields, current_field_type, selection_start,
                   selected_field_idx, listbox, curselection, canvas, defaults, last,
                   disk, arith>>

Draw ==
    /\ probe.kind = "point"
    /\ probe.canvas = <<>>
    /\ probe' = [probe EXCEPT !.canvas = ToCanvas(probe.pdf)]
    /\ UNCHANGED <<pdf_doc, current_page, fields, current_field_type, selection_start,
                   selected_field_idx, listbox, curselection, canvas, defaults, last,
                   disk, arith>>

Release ==
    /\ probe.kind = "point"
    /\ probe.canvas # <<>>
    /\ probe.back = <<>>
    /\ probe' = [probe EXCEPT !.back = ToPdf(probe.canvas)]
    /\ UNCHANGED <<pdf_doc, current_page, fields, current_field_type, selection_start,
                   selected_field_idx, listbox, curselection, canvas, defaults, last,
                   disk, arith>>

NextMapper == PickPoint \/ Draw \/ Release \/ PutAway

SpecMapper == Init /\ [][NextMapper]_vars

(***************************************************************************)
(* The rect of a dragged field.                                            *)
(***************************************************************************)
FLeq(a, b) == FCmp(a, b) <= 0
FMin(a, b) == IF FGt(a, b) THEN b ELSE a
FMax(a, b) == IF FGt(a, b) THEN a ELSE b

\* the release at pixel p of a drag that creates a field
Created(p) ==
    /\ pdf_doc # NoDoc
    /\ selection_start # <<>>
    /\ Len(fields') = Len(fields) + 1
    /\ \E c \in CombTexts : on_mouse_release(p[1], p[2], c)

FAbsDiff(x, y) ==
    LET e  == FMinExp(x, y)
        a  == FAlign(x, e)
        b  == FAlign(y, e)
    IN  IF x.s # y.s THEN <<BAdd(a, b), e>>
        ELSE IF BCmp(a, b) >= 0 THEN <<BSub(a, b), e>> ELSE <<BSub(b, a), e>>

\* |a - b| <= 10^-6, exactly
Within1e6(a, b) ==
    LET d == FAbsDiff(a, b)
    IN  \/ d[1] = <<>>
        \/ d[2] < 0 /\ BCmp(BMul(d[1], BFromNat(10^6)), BShl(<<1>>, 0 - d[2])) <= 0

\* 2^32
CoordLimit == FMul(FromInt(2^16), FromInt(2^16))
InLimit(c) == FLeq([c EXCEPT !.s = 0], CoordLimit)

RoundTripped == probe.kind = "point" /\ probe.back # <<>>

SameScale == DrawMat.a = ReleaseMat.a /\ DrawMat.d = ReleaseMat.d /\ DrawMat.a = DrawMat.d

\* C6, as stated: a PDF point converted to the canvas and back is within 1e-6
\* of the original in both coordinates, for every point, and one scale serves
\* both directions and both axes.
C6_RoundTripEveryPoint ==
    /\ SameScale
    /\ RoundTripped => /\ Within1e6(probe.back[1], probe.pdf[1])
                       /\ Within1e6(probe.back[2], probe.pdf[2])

\* C6, amended: a PDF point whose coordinates are at most 2^32 in magnitude,
\* converted to the canvas and back, is within 1e-6 of the original in both
\* coordinates, and one scale serves both directions and both axes.
C6_RoundTripInLimit ==
    /\ SameScale
    /\ (RoundTripped /\ InLimit(probe.pdf[1]) /\ InLimit(probe.pdf[2]))
         => /\ Within1e6(probe.back[1], probe.pdf[1])
            /\ Within1e6(probe.back[2], probe.pdf[2])

\* a point that does not come back exactly
C6_InexactRoundTrip ==
    /\ RoundTripped
    /\ probe.pdf = <<FromInt(31), Scaled(2^30 - 1, 2)>>
    /\ probe.back[1] # probe.pdf[1]
    /\ probe.back[2] # probe.pdf[2]

(***************************************************************************)
(* The export.                                                             *)
(***************************************************************************)
\* the last handler was a save that succeeded
Saved == last.out # <<>>
Added == last.out[1].added
Flagged(w, flag) == BitAnd(w.field_flags, flag) # 0

\* C7: the widget exported for a field is configured by the field's type: comb
\* gives a Text widget with COMB set, MULTILINE unset and the field's max_chars
\* as its maximum length; multiline and textarea give a Text widget with
\* MULTILINE set; checkbox and radio give a Checkbox and a RadioButton widget
\* of value Off; text gives a Text widget with no flag.
C7_WidgetByType ==
    Saved =>
      \A i \in 1..Len(Added) :
        LET w == Added[i].widget
            t == fields[i].field_type
        IN  /\ t = "comb" => /\ w.field_type = PDF_WIDGET_TYPE_TEXT
                             /\ Flagged(w, PDF_TX_FIELD_IS_COMB)
                             /\ ~Flagged(w, PDF_TX_FIELD_IS_MULTILINE)
                             /\ w.text_maxlen = fields[i].max_chars
            /\ t \in {"multiline", "textarea"} =>
                  w.field_type = PDF_WIDGET_TYPE_TEXT /\ Flagged(w, PDF_TX_FIELD_IS_MULTILINE)
            /\ t = "checkbox" => w.field_type = PDF_WIDGET_TYPE_CHECKBOX /\ w.field_value = "Off"
            /\ t = "radio" => w.field_type = PDF_WIDGET_TYPE_RADIOBUTTON /\ w.field_value = "Off"
            /\ t = "text" => w.field_type = PDF_WIDGET_TYPE_TEXT /\ w.field_flags = 0

\* a comb field of ten characters and a check box, exported
C7_CombOfTenExported ==
    /\ Saved
    /\ Len(fields) = 2
    /\ fields[1].field_type = "comb" /\ fields[1].max_chars = 10
    /\ Added[1].widget.text_maxlen = 10
    /\ fields[2].field_type = "checkbox"
    /\ Added[2].widget.field_value = "Off"

\* C8: a save that succeeds attaches one widget for each field, in the order of
\* the field list, to the page field.page_num, with the field's name and rect,
\* and changes neither the field list nor the open document.
C8_OneWidgetPerField ==
    [][last'.out # <<>> =>
         LET added == last'.out[1].added
         IN  /\ Len(added) = Len(fields)
             /\ \A i \in 1..Len(fields) :
                   /\ added[i].page = fields[i].page_num
                   /\ added[i].widget.field_name = fields[i].name
                   /\ added[i].widget.rect = fields[i].rect
             /\ fields' = fields
             /\ pdf_doc' = pdf_doc
             /\ disk' = disk]_vars

\* two fields of two pages, exported
C8_TwoPagesExported ==
    /\ Saved
    /\ Len(Added) = 2
    /\ Added[1].page = 0 /\ Added[1].widget.field_name = "notes"
    /\ Added[2].page = 1 /\ Added[2].widget.field_name = "field_2"

(***************************************************************************)
(* Failures.                                                               *)
(***************************************************************************)
ShownIn(l, msg) == \E i \in 1..Len(l.msgs) : l.msgs[i] = msg

\* C9: when open_pdf shows its error message, pdf_doc, current_page, the field
\* list and selected_field_idx are as they were before the call.
C9_FailedOpenChangesNothing ==
    [][ShownIn(last', "Failed to open PDF") =>
         /\ pdf_doc' = pdf_doc
         /\ current_page' = current_page
         /\ fields' = fields
         /\ selected_field_idx' = selected_field_idx]_vars

\* the error message of open_pdf is shown, and the document that failed to
\* render is the open document, with the field read from it
C9_FailedOpenKept ==
    /\ ShownIn(last, "Failed to open PDF")
    /\ pdf_doc = "damaged.pdf"
    /\ Len(fields) = 1 /\ fields[1].name = "code"

\* C10: when update_field_appearance shows its warning, the field list is as
\* it was before the call.
C10_InvalidValueChangesNothing ==
    [][ShownIn(last', "Invalid Value") => fields' = fields]_vars

\* the warning is shown, and the border width typed is in the selected field
C10_BorderWidthKept ==
    /\ ShownIn(last, "Invalid Value")
    /\ selected_field_idx # NoSelection
    /\ selected_field_idx < Len(fields)
    /\ fields[selected_field_idx + 1].border_width = arith.float[<<"2", ".", "5">>].val

(***************************************************************************)
(* The handlers of the field list and of the properties panel              *)
(***************************************************************************)
\* a list without its element at index idx (from 0): del fields[idx]
Without(fs, idx) == [i \in 1..(Len(fs) - 1) |-> IF i <= idx THEN fs[i] ELSE fs[i + 1]]

\* the name when the text of the entry is stored as it was typed
RenamedUnstripped(name_text) == Join(name_text)

\* the name update_field_name reads from the entry
NewName(name_text) == Join(Strip(name_text))

\* name_text: the text of the "Name" entry
update_field_name(name_text) ==
    LET new_name == NewName(name_text)
        i        == selected_field_idx + 1
    IN  /\ IF selected_field_idx = NoSelection THEN
                /\ last' = Quiet
                /\ UNCHANGED <<fields, listbox, curselection>>
           ELSE IF new_name = "" THEN
                /\ last' = Shown("Invalid Name")
                /\ UNCHANGED <<fields, listbox, curselection>>
           ELSE IF selected_field_idx >= Len(fields) THEN
                /\ last' = Uncaught
                /\ UNCHANGED <<fields, listbox, curselection>>
           ELSE
                /\ fields' = [fields EXCEPT ![i].name = new_name]
                /\ listbox' = FieldsList(fields')
                /\ curselection' = NoSelection
                /\ last' = Quiet
        /\ UNCHANGED <<pdf_doc, current_page, current_field_type, selection_start,
                       selected_field_idx, canvas, defaults, probe, disk, arith>>

delete_field ==
    IF curselection = NoSelection THEN
        /\ last' = Quiet
        /\ UNCHANGED <<pdf_doc, current_page, fields, current_field_type, selection_start,
                       selected_field_idx, listbox, curselection, canvas, defaults, probe,
                       disk, arith>>
    ELSE IF curselection >= Len(fields) THEN
        /\ last' = Uncaught
        /\ UNCHANGED <<pdf_doc, current_page, fields, current_field_type, selection_start,
                       selected_field_idx, listbox, curselection, canvas, defaults, probe,
                       disk, arith>>
    ELSE
        LET fs == Without(fields, curselection)
        IN  /\ fields' = fs
            /\ selected_field_idx' = NoSelection
            /\ listbox' = FieldsList(fs)
            /\ curselection' = NoSelection
            /\ IF pdf_doc # NoDoc /\ RenderRaises(pdf_doc, current_page)
               THEN last' = Uncaught /\ UNCHANGED canvas
               ELSE /\ last' = Quiet
                    /\ canvas' = RenderPage(pdf_doc, current_page, fs, NoSelection, canvas)
            /\ UNCHANGED <<pdf_doc, current_page, current_field_type, selection_start,
                           defaults, probe, disk, arith>>

\* confirmed: the answer to the "Clear all fields?" question
clear_all_fields(confirmed) ==
    IF ~confirmed THEN
        /\ last' = Quiet
        /\ UNCHANGED <<pdf_doc, current_page, fields, current_field_type, selection_start,
                       selected_field_idx, listbox, curselection, canvas, defaults, probe,
                       disk, arith>>
    ELSE
        /\ fields' = <<>>
        /\ selected_field_idx' = NoSelection
        /\ listbox' = <<>>
        /\ curselection' = NoSelection
        /\ IF pdf_doc # NoDoc /\ RenderRaises(pdf_doc, current_page)
           THEN last' = Uncaught /\ UNCHANGED canvas
           ELSE /\ last' = Quiet
                /\ canvas' = RenderPage(pdf_doc, current_page, <<>>, NoSelection, canvas)
        /\ UNCHANGED <<pdf_doc, current_page, current_field_type, selection_start,
                       defaults, probe, disk, arith>>

(***************************************************************************)
(* load_default_styles, over the preference file on the disk               *)
(***************************************************************************)
StyleKeys == <<"border_color", "fill_color", "font_color", "border_width", "font_size">>

\* the attributes after an except clause that keeps what was assigned
KeepAssigned(assigned) == assigned

\* the attributes after the except clause, entered with some already assigned
OnLoadError(assigned) == DefaultConfig

\* the assignments of the try block from the i-th key on
RECURSIVE AssignStyles(_, _, _)
AssignStyles(config, assigned, i) ==
    IF i > Len(StyleKeys) THEN assigned
    ELSE LET key == StyleKeys[i]
             v   == IF key \in DOMAIN config THEN config[key]
                    ELSE [iter |-> TRUE, val |-> DefaultConfig[key]]
         IN  IF i <= 3 /\ ~v.iter THEN OnLoadError(assigned)
             ELSE AssignStyles(config, [assigned EXCEPT ![key] = v.val], i + 1)

load_default_styles ==
    LET file == disk[config_file]
    IN  /\ defaults' = IF ~file.exists THEN DefaultConfig
                       ELSE IF ~file.readable \/ ~file.parsed \/ ~file.object
                       THEN OnLoadError(defaults)
                       ELSE AssignStyles(file.config, defaults, 1)
        /\ last' = Quiet
        /\ UNCHANGED <<pdf_doc, current_page, fields, current_field_type, selection_start,
                       selected_field_idx, listbox, curselection, canvas, probe, disk, arith>>

(***************************************************************************)
(* Editing: a document with or without widgets is opened; fields           *)
(* of two types are drawn, selected, renamed, deleted and cleared, and the *)
(* form is saved.                                                          *)
(***************************************************************************)
NameTexts == {<<>>, <<" ", "\t">>, <<" ", "i", "d", "\n">>}
EditPageTexts == {<<"0">>, <<"2">>, <<"x">>}

NextEdit ==
    \/ \E f \in {"blank.pdf", "form.pdf"} : open_pdf(f)
    \/ \E t \in {"text", "radio"} : on_field_type_change(t)
    \/ on_mouse_press(50, 50)
    \/ \E c \in CombTexts : MayCreate /\ on_mouse_release(175, 260, c)
    \/ \E i \in Selections : on_field_select(i)
    \/ \E t \in NameTexts : update_field_name(t)
    \/ delete_field
    \/ \E b \in BOOLEAN : clear_all_fields(b)
    \/ save_form_pdf("out.pdf", FALSE)

SpecEdit == Init /\ [][NextEdit]_vars

IsSpace(c) == c \in {" ", "\t", "\n"}
Blank(t) == \A k \in 1..Len(t) : IsSpace(t[k])

\* the text between the first and the last character of t that is no whitespace
Trimmed(t) ==
    LET lo == CHOOSE k \in 1..Len(t) : ~IsSpace(t[k]) /\ \A j \in 1..(k - 1) : IsSpace(t[j])
        hi == CHOOSE k \in 1..Len(t) : ~IsSpace(t[k]) /\ \A j \in (k + 1)..Len(t) : IsSpace(t[j])
    IN  SubSeq(t, lo, hi)

Selected == selected_field_idx # NoSelection /\ selected_field_idx < Len(fields)

\* C11: renaming the selected field with an empty or whitespace-only text
\* shows the warning "Invalid Name" and changes no field, and with any other
\* text changes the name of the selected field, and nothing else of any field,
\* to the text without its surrounding whitespace.
C11_Rename ==
    [][\A t \in NameTexts :
         (Selected /\ update_field_name(t)) =>
            IF Blank(t)
            THEN /\ fields' = fields
                 /\ ShownIn(last', "Invalid Name")
            ELSE /\ Len(fields') = Len(fields)
                 /\ \A k \in 1..Len(fields) :
                       fields'[k] = IF k = selected_field_idx + 1
                                    THEN [fields[k] EXCEPT !.name = Join(Trimmed(t))]
                                    ELSE fields[k]]_vars

C11_Renamed ==
    /\ Len(fields) = 2
    /\ selected_field_idx = 1
    /\ fields[2].name = "id"
    /\ fields[1].name # "id"

(***************************************************************************)
(* Paging: as editing, over documents of one and of two pages, one of      *)
(* which opens and then fails to load its page.                            *)
(***************************************************************************)
NextPages ==
    \/ \E f \in {"form.pdf", "locked.pdf"} : open_pdf(f)
    \/ on_mouse_press(50, 50)
    \/ \E c \in CombTexts : MayCreate /\ on_mouse_release(175, 260, c)
    \/ \E t \in EditPageTexts : go_to_page(t)
    \/ Len(listbox) > 0 /\ on_field_select(0)
    \/ update_field_name(<<" ", "i", "d", "\n">>)
    \/ delete_field
    \/ clear_all_fields(TRUE)

SpecPages == Init /\ [][NextPages]_vars


(***************************************************************************)
(* Scanning: every file is opened, among them one with widgets whose       *)
(* reading raises; fields are drawn and the page is changed.               *)
(***************************************************************************)
NextScan ==
    \/ \E f \in DOMAIN Files : open_pdf(f)
    \/ \E t \in {"text", "comb"} : on_field_type_change(t)
    \/ on_mouse_press(50, 50)
    \/ \E c \in CombTexts : MayCreate /\ on_mouse_release(175, 260, c)
    \/ \E t \in PageTexts : go_to_page(t)

SpecScan == Init /\ [][NextScan]_vars

\* the places <<page, index>> of the widgets of a file whose reading succeeds
Readable(f) ==
    UNION {{<<k, j>> : j \in {i \in 1..Len(disk[f].pages[k].widgets) :
                                   ~disk[f].pages[k].widgets[i].raises}} :
           k \in 1..Len(disk[f].pages)}

\* the number of readable widgets up to place p, in page order then widget order
Rank(f, p) ==
    Cardinality({q \in Readable(f) : q[1] < p[1] \/ (q[1] = p[1] /\ q[2] <= p[2])})

Scannable(f) == disk[f].opens /\ \A k \in 1..Len(disk[f].pages) : disk[f].pages[k].loads

\* C12: when a document is opened, a widget whose reading raises is left out
\* on its own: every other widget of every page becomes a field, in page order
\* and within a page in widget order, with the number of its page, its
\* rectangle, and its name or "field_<k>" for the k-th field imported.
C12_RaisingWidgetSkipped ==
    [][\A f \in DOMAIN Files :
         (Scannable(f) /\ open_pdf(f)) =>
            /\ Len(fields') = Cardinality(Readable(f))
            /\ \A p \in Readable(f) :
                 LET w == disk[f].pages[p[1]].widgets[p[2]]
                     k == Rank(f, p)
                 IN  /\ fields'[k].page_num = p[1] - 1
                     /\ fields'[k].rect = w.rect
                     /\ fields'[k].field_type = GetFieldTypeFromWidget(w)
                     /\ fields'[k].name = IF w.field_name # "" THEN w.field_name
                                          ELSE DetectedName(k)]_vars

C12_ImportedAroundRaising ==
    /\ pdf_doc = "mixed.pdf"
    /\ Len(fields) = 2
    /\ fields[1].name = "first" /\ fields[1].field_type = "text"
    /\ fields[2].name = "field_2" /\ fields[2].field_type = "checkbox"

(***************************************************************************)
(* Preferences: the preference file is replaced by files of every kind,    *)
(* and the program reads it as it does when it starts.                     *)
(***************************************************************************)
\* the files: missing, unreadable, not JSON, not a JSON object, and the JSON
\* objects in which a key holds nothing, a value, or for a colour something
\* tuple() rejects (a number, null)
ConfigFiles ==
    LET half    == arith.float[<<"2", ".", "5">>].val
        big     == arith.float[<<"1", "4">>].val
        numbers(val) == {[held |-> FALSE, iter |-> TRUE, val |-> val],
                         [held |-> TRUE, iter |-> TRUE, val |-> val]}
        colors  == {[held |-> FALSE, iter |-> TRUE, val |-> <<>>],
                    [held |-> TRUE, iter |-> TRUE, val |-> <<half, FZero>>],
                    [held |-> TRUE, iter |-> FALSE, val |-> <<>>]}
        object(o) == ConfigFile(TRUE, TRUE, TRUE, TRUE,
                                [key \in {k \in DOMAIN o : o[k].held} |->
                                    [iter |-> o[key].iter, val |-> o[key].val]])
    IN  {NoConfigFile, ConfigFile(TRUE, FALSE, FALSE, FALSE, <<>>),
         ConfigFile(TRUE, TRUE, FALSE, FALSE, <<>>), ConfigFile(TRUE, TRUE, TRUE, FALSE, <<>>)}
        \cup {object([border_color |-> b, fill_color |-> f, font_color |-> c,
                      border_width |-> w, font_size |-> z]) :
              b \in colors, f \in colors, c \in colors,
              w \in numbers(half), z \in numbers(big)}

\* the preference file is written by another program, or by hand
replace_config_file(file) ==
    /\ disk' = [disk EXCEPT ![config_file] = file]
    /\ UNCHANGED <<pdf_doc, current_page, fields, current_field_type, selection_start,
                   selected_field_idx, listbox, curselection, canvas, defaults, last, probe,
                   arith>>

NextPrefs ==
    \/ \E file \in ConfigFiles : replace_config_file(file)
    \/ load_default_styles

SpecPrefs == Init /\ [][NextPrefs]_vars

FixedDefaults ==
    [border_color |-> <<FZero, FZero, FZero>>,
     fill_color   |-> <<FromInt(1), FromInt(1), FromInt(1)>>,
     font_color   |-> <<FZero, FZero, FZero>>,
     border_width |-> FromInt(1),
     font_size    |-> FromInt(12)]

\* the file cannot be read, parsed or used
Unusable(file) ==
    \/ ~file.readable \/ ~file.parsed \/ ~file.object
    \/ \E key \in DOMAIN file.config \cap {"border_color", "fill_color", "font_color"} :
          ~file.config[key].iter

\* C13: load_default_styles never raises and leaves the five default style
\* attributes set; with a file that is missing, or that cannot be read, parsed
\* or used, they are exactly the fixed defaults, none of them a value of the
\* file; with a file that holds a usable JSON object, every key the object
\* lacks takes its fixed default and every key it has takes its value.
C13_LoadDefaultStyles ==
    [][load_default_styles =>
         LET file == disk[config_file]
         IN  /\ last' # Uncaught
             /\ DOMAIN defaults' = {StyleKeys[i] : i \in 1..5}
             /\ IF ~file.exists \/ Unusable(file)
                THEN defaults' = FixedDefaults
                ELSE \A key \in DOMAIN defaults' :
                       defaults'[key] = IF key \in DOMAIN file.config
                                        THEN file.config[key].val
                                        ELSE FixedDefaults[key]]_vars

C13_AbsentKeysDefaulted ==
    /\ defaults.border_width = arith.float[<<"2", ".", "5">>].val
    /\ defaults.font_size = FromInt(12)
    /\ defaults.border_color = <<arith.float[<<"2", ".", "5">>].val, FZero>>
    /\ defaults.fill_color = <<FromInt(1), FromInt(1), FromInt(1)>>

\* the page number a text of the "Page" entry stands for, 0 when it is no number
Typed == <<"0">> :> 0 @@ <<"1">> :> 1 @@ <<"2">> :> 2 @@ <<"x">> :> 0

PagesOf(doc) == Len(disk[doc].pages)

Numeral == <<"1", "2", "3", "4">>

\* the names of the widgets of a document
WidgetNames(doc) ==
    UNION {{disk[doc].pages[k].widgets[j].field_name : j \in 1..Len(disk[doc].pages[k].widgets)} :
           k \in 1..Len(disk[doc].pages)}

\* C15: every field has a non-empty name: a drawn field is named
\* "<type>_<n>", n the number of fields once it is added; an imported field
\* has the name of its widget or "field_<k>"; a rename stores no empty name.
C15_NamesNonEmpty ==
    /\ [](\A k \in 1..Len(fields) : fields[k].name # "")
    /\ [][\A c \in CombTexts :
            (pdf_doc # NoDoc /\ selection_start # <<>> /\ on_mouse_release(175, 260, c))
               => /\ Len(fields') = Len(fields) + 1
                  /\ fields'[Len(fields')].name =
                        current_field_type \o "_" \o Numeral[Len(fields')]]_vars
    /\ [][\A f \in {"blank.pdf", "form.pdf"} :
            open_pdf(f) =>
               \A k \in 1..Len(fields') :
                  \/ fields'[k].name \in WidgetNames(f) \ {""}
                  \/ fields'[k].name = "field_" \o Numeral[k]]_vars
    /\ [][\A t \in NameTexts :
            (Selected /\ update_field_name(t)) =>
               \A k \in 1..Len(fields') : fields'[k].name # ""]_vars

C15_DrawnImportedRenamed ==
    /\ pdf_doc = "form.pdf"
    /\ Len(fields) = 2
    /\ fields[1].name = "id"
    /\ fields[2].name = "radio_2"

(***************************************************************************)
(* Comb fields: text and comb fields are drawn with every kind of text in  *)
(* the "Comb Chars" entry.                                                 *)
(***************************************************************************)
CombEntryTexts == {<<"1", "0">>, <<"-", "5">>, <<"x">>}

NextComb ==
    \/ \E f \in {"blank.pdf", "damaged.pdf"} : open_pdf(f)
    \/ \E t \in {"text", "comb"} : on_field_type_change(t)
    \/ on_mouse_press(50, 50)
    \/ \E p \in {<<50, 50>>, <<175, 260>>} : on_mouse_drag(p[1], p[2])
    \/ \E c \in CombEntryTexts : MayCreate /\ on_mouse_release(175, 260, c)

SpecComb == Init /\ [][NextComb]_vars

\* C16: max_chars is a non-negative integer on every field, whatever the
\* "Comb Chars" entry holds and whatever widget was imported.
C16_MaxCharsNonNegative ==
    \A k \in 1..Len(fields) : fields[k].max_chars \in Nat

C16_NegativeCombChars ==
    \E k \in 1..Len(fields) :
        fields[k].field_type = "comb" /\ fields[k].max_chars = -5

\* drag-create appends, delete_field removes the entry selected in the list,
\* clear-all empties the collection when confirmed and only then
OrderKept ==
    /\ \A c \in CombTexts :
          (pdf_doc # NoDoc /\ selection_start # <<>> /\ on_mouse_release(175, 260, c))
             => /\ Len(fields') = Len(fields) + 1
                /\ SubSeq(fields', 1, Len(fields)) = fields
    /\ (curselection # NoSelection /\ curselection < Len(fields) /\ delete_field)
          => fields' = SubSeq(fields, 1, curselection)
                          \o SubSeq(fields, curselection + 2, Len(fields))
    /\ clear_all_fields(TRUE) => fields' = <<>>
    /\ clear_all_fields(FALSE) => fields' = fields

\* the displayed list has one entry per field, in the same order
ListFollows ==
    /\ Len(listbox) = Len(fields)
    /\ \A k \in 1..Len(fields) :
          listbox[k] = "[P" \o Numeral[fields[k].page_num + 1] \o "] "
                          \o fields[k].field_type \o ": " \o fields[k].name

\* C17: the fields are an ordered sequence: drag-create appends at the end,
\* delete_field removes exactly the field selected in the list and keeps the
\* order of the others, clear-all empties the collection only when confirmed,
\* and the displayed list always has one entry per field in the same order.
C17_OrderedCollection == [][OrderKept]_vars /\ []ListFollows

C17_ListBehindFields ==
    /\ pdf_doc = "locked.pdf"
    /\ fields = <<>>
    /\ Len(listbox) = 2

\* what the gesture handlers can change
Gesture == <<pdf_doc, current_page, fields, current_field_type, selection_start,
             selected_field_idx, listbox, curselection, canvas, defaults>>

\* C18: a gesture is idle, dragging, then created: with a document open, a
\* release that follows a press appends exactly one field, of the type and on
\* the page current at the release, and returns to idle; a release that follows
\* no press, and any press, drag or release without a document, creates no
\* field and changes nothing.
C18_GestureCreatesOneField ==
    [][/\ \A c \in CombEntryTexts :
            /\ (pdf_doc # NoDoc /\ selection_start # <<>> /\ on_mouse_release(175, 260, c))
                  => /\ Len(fields') = Len(fields) + 1
                     /\ SubSeq(fields', 1, Len(fields)) = fields
                     /\ fields'[Len(fields')].field_type = current_field_type
                     /\ fields'[Len(fields')].page_num = current_page
                     /\ selection_start' = <<>>
            /\ ((pdf_doc = NoDoc \/ selection_start = <<>>) /\ on_mouse_release(175, 260, c))
                  => UNCHANGED Gesture
       /\ (pdf_doc = NoDoc /\ on_mouse_press(50, 50)) => UNCHANGED Gesture
       /\ \A p \in {<<50, 50>>, <<175, 260>>} :
            (pdf_doc = NoDoc /\ on_mouse_drag(p[1], p[2])) => UNCHANGED Gesture]_vars

C18_ReleaseRaised ==
    /\ pdf_doc = "blank.pdf"
    /\ current_field_type = "comb"
    /\ selection_start # <<>>
    /\ fields = <<>>
    /\ last = Uncaught

\* C19: selected_field_idx is None or an index of a field, and the list the
\* user selects from has as many entries as there are fields, after any
\* sequence of drag-create, delete, clear-all, select, failed and successful
\* open, so that no handler indexes the fields out of range.
C19_SelectionValid ==
    /\ selected_field_idx = NoSelection \/ selected_field_idx \in 0..(Len(fields) - 1)
    /\ Len(listbox) = Len(fields)

C19_SelectedNothing ==
    /\ pdf_doc = "locked.pdf"
    /\ fields = <<>>
    /\ selected_field_idx = 0
    /\ last = Uncaught

\* the widgets of the saved document on a page with a rectangle: those the
\* source has there, and those the save has added
InSource(page_num, rect) ==
    LET ws == disk[last.out[1].source].pages[page_num + 1].widgets
    IN  Cardinality({j \in 1..Len(ws) : ws[j].rect = rect})

InAdded(page_num, rect) ==
    Cardinality({i \in 1..Len(Added) :
                    Added[i].page = page_num /\ Added[i].widget.rect = rect})

InFields(page_num, rect) ==
    Cardinality({i \in 1..Len(fields) :
                    fields[i].page_num = page_num /\ fields[i].rect = rect})

SourceWidgets ==
    LET pages == disk[last.out[1].source].pages
    IN  UNION {{<<k, j>> : j \in 1..Len(pages[k].widgets)} : k \in 1..Len(pages)}

\* C20: the widgets of a saved document are one-to-one with the fields at the
\* time of the save: a field imported from a widget of the source gives one
\* widget, not the original and a copy, and an imported field that was deleted
\* gives none.
C20_WidgetsMatchFields ==
    Saved =>
        /\ Cardinality(SourceWidgets) + Len(Added) = Len(fields)
        /\ \A i \in 1..Len(fields) :
              InSource(fields[i].page_num, fields[i].rect)
                 + InAdded(fields[i].page_num, fields[i].rect)
                    = InFields(fields[i].page_num, fields[i].rect)

C20_DeletedStillSaved ==
    /\ Saved
    /\ last.out[1].source = "form.pdf"
    /\ Len(fields) = 1
    /\ fields[1].name = "field_2"
    /\ InSource(fields[1].page_num, fields[1].rect) = 1
    /\ InAdded(fields[1].page_num, fields[1].rect) = 1
    /\ Cardinality(SourceWidgets) = 2

(***************************************************************************)
(* The export branch of save_form_pdf followed by                          *)
(* _get_field_type_from_widget: a field is picked, the widget built for it *)
(* is classified, and the field is put away.  The ordinates of the field's *)
(* rect are halves of integers, kept with the field as <<2 * y0, 2 * y1>>. *)
(***************************************************************************)
FieldHalves == {h \in ProbeHalves : h[1] <= h[2]}

PickField ==
    /\ probe = NoProbe
    /\ \E t \in FieldTypes, h \in FieldHalves, m \in {0, 10} :
          probe' = [kind   |-> "field",
                    field  |-> FormField(t, <<FromInt(10), Half(h[1]), FromInt(210), Half(h[2])>>,
                                         FieldName(t, 1), 0, IF t = "comb" THEN m ELSE 0,
                                         defaults.border_color, defaults.fill_color,
                                         defaults.border_width, defaults.font_size,
                                         defaults.font_color),
                    halves |-> h,
                    done   |-> FALSE,
                    label  |-> ""]
    /\ UNCHANGED <<pdf_doc, current_page, fields, current_field_type, selection_start,
                   selected_field_idx, listbox, curselection, canvas, defaults, last,
                   disk, arith>>

ClassifyExported ==
    /\ probe.kind = "field"
    /\ ~probe.done
    /\ probe' = [probe EXCEPT !.done = TRUE,
                              !.label = GetFieldTypeFromWidget(ExportWidget(probe.field))]
    /\ UNCHANGED <<pdf_doc, current_page, fields, current_field_type, selection_start,
                   selected_field_idx, listbox, curselection, canvas, defaults, last,
                   disk, arith>>

NextRoundTrip == PickField \/ ClassifyExported \/ PutAway

SpecRoundTrip == Init /\ [][NextRoundTrip]_vars

Exported == probe.kind = "field" /\ probe.done

\* C21: classifying the widget built for a text, checkbox, comb or radio field
\* gives the field's own type; for a multiline or textarea field the answer is
\* textarea exactly when the height of the rect is above 50, whichever of the
\* two types the field had.
C21_ExportThenClassify ==
    Exported =>
      /\ probe.field.field_type \in {"text", "checkbox", "comb", "radio"}
            => probe.label = probe.field.field_type
      /\ probe.field.field_type \in {"multiline", "textarea"}
            => /\ probe.label \in {"multiline", "textarea"}
               /\ (probe.label = "textarea") <=> (probe.halves[2] - probe.halves[1] > 2 * 50)

C21_TallMultilineComesBackTextArea ==
    /\ Exported
    /\ probe.field.field_type = "multiline"
    /\ probe.halves[2] - probe.halves[1] > 2 * 50
    /\ probe.label = "textarea"

(***************************************************************************)
(* save_default_styles and the "Save Settings" button of the style         *)
(* settings window                                                          *)
(***************************************************************************)
\* the preference file after save_default_styles.  outcome: "written"; "refused",
\* open() raises and the file is as it was; "cut", open() has emptied the file
\* and json.dump raises before the text is complete
save_default_styles(assigned, file, outcome) ==
    LET \* the number json.load reads from the numeral json.dump writes for v
        number(v) == arith.read[arith.repr[v]]
    IN  IF outcome = "refused" THEN file
        ELSE IF outcome = "cut" THEN ConfigFile(TRUE, TRUE, FALSE, FALSE, <<>>)
        ELSE ConfigFile(TRUE, TRUE, TRUE, TRUE,
                        [key \in {"border_color", "fill_color", "font_color"} |->
                            [iter |-> TRUE,
                             val  |-> [i \in 1..Len(assigned[key]) |-> number(assigned[key][i])]]]
                        @@ [key \in {"border_width", "font_size"} |->
                            [iter |-> TRUE, val |-> number(assigned[key])]])

\* save_settings.  The texts are those of the two entries; chosen: the three
\* colours were picked in the choosers, otherwise they are the defaults the
\* window was opened with
save_settings(border_width_text, font_size_text, chosen, outcome) ==
    LET border_width == arith.float[border_width_text]
        font_size    == arith.float[font_size_text]
        colors       == IF chosen THEN arith.chosen ELSE defaults
        assigned     == [border_color |-> colors.border_color,
                         fill_color   |-> colors.fill_color,
                         font_color   |-> colors.font_color,
                         border_width |-> border_width.val,
                         font_size    |-> font_size.val]
    IN  /\ IF ~border_width.ok
           THEN /\ defaults' = defaults
                /\ disk' = disk
                /\ last' = Shown("Invalid Input")
           ELSE IF ~font_size.ok
           THEN /\ defaults' = [defaults EXCEPT !.border_width = border_width.val]
                /\ disk' = disk
                /\ last' = Shown("Invalid Input")
           ELSE /\ defaults' = assigned
                /\ disk' = [disk EXCEPT ![config_file] =
                               save_default_styles(assigned, disk[config_file], outcome)]
                /\ last' = [msgs |-> (IF outcome = "written" THEN <<>>
                                      ELSE <<"Error saving config">>) \o <<"Success">>,
                            out  |-> <<>>]
        /\ UNCHANGED <<pdf_doc, current_page, fields, current_field_type, selection_start,
                       selected_field_idx, listbox, curselection, canvas, probe, arith>>

\* the settings are saved from the window, with the texts float() is worked
\* out for in the two entries, and the program is started again
NextSettings ==
    \/ \E b \in DOMAIN arith.float, f \in DOMAIN arith.float, chosen \in BOOLEAN,
          outcome \in {"written", "refused", "cut"} : save_settings(b, f, chosen, outcome)
    \/ load_default_styles

SpecSettings == Init /\ [][NextSettings]_vars

\* save_default_styles has just written the file
JustSaved == ShownIn(last, "Success") /\ ~ShownIn(last, "Error saving config")

\* the part of C22 about saving and loading: when save_default_styles has
\* written the file, load_default_styles leaves the five values in memory as
\* they are, the colours being tuples of three numbers
C22_SavedThenLoaded ==
    [][(JustSaved /\ load_default_styles)
         => /\ defaults' = defaults
            /\ \A key \in {"border_color", "fill_color", "font_color"} : Len(defaults'[key]) = 3]_vars

\* C22: when save_default_styles has written the file, load_default_styles
\* restores the five values that were in memory; and when "Save Settings"
\* shows its warning for an invalid number, the values in memory and the
\* preference file are as they were before.
C22_PreferencesRoundTrip ==
    [][/\ (JustSaved /\ load_default_styles) => defaults' = defaults
       /\ ShownIn(last', "Invalid Input") => (defaults' = defaults /\ disk' = disk)]_vars

\* the warning is shown, the border width typed is in memory, and the
\* preference file holds another one or is missing
C22_WidthInMemoryNotStored ==
    /\ ShownIn(last, "Invalid Input")
    /\ defaults.border_width = arith.float[<<"2", ".", "5">>].val
    /\ LET file == disk[config_file]
       IN  \/ ~file.exists
           \/ file.parsed /\ file.config["border_width"].val # defaults.border_width

\* the file was just written with the chosen colours and the numbers typed,
\* and it holds what is in memory
C22_ChosenColorsStored ==
    /\ JustSaved
    /\ defaults.border_color = arith.chosen.border_color
    /\ defaults.border_width = arith.float[<<"2", ".", "5">>].val
    /\ disk[config_file].parsed
    /\ \A key \in DOMAIN defaults : disk[config_file].config[key].val = defaults[key]
=============================================================================
